---- MODULE Spec2Model ----
(***************************************************************************)
(* Model of the crossword CSP solver of src/generate.py                    *)
(* (class CrosswordCreator): node consistency, revise, AC-3 and the        *)
(* search loop of backtrack().                                             *)
(*                                                                         *)
(* A word is a sequence of letters; a letter is a number (1 = "a",         *)
(* 2 = "b", 3 = "c"), so that Python's string order is the lexicographic   *)
(* order of the sequences.  Python's 0-based index w[k] is w[k + 1] here.  *)
(* A Variable is the record of its four fields i, j, direction, length.    *)
(***************************************************************************)
EXTENDS Integers, Sequences, FiniteSets, TLC

\* ------------------------------------------------------------------ bounds

\* Largest number of words in the puzzle's word list.
MaxWords == 3

\* Largest number of method calls a caller makes one by one.
MaxCalls == 3

\* ------------------------------------------------------- puzzle universe

\* The vocabulary the word lists are drawn from: "aa", "ab", "ba", "bc",
\* "cb" and "aaa", "aab", "baa".
Vocabulary ==
    {<<1, 1>>, <<1, 2>>, <<2, 1>>, <<2, 3>>, <<3, 2>>,
     <<1, 1, 1>>, <<1, 1, 2>>, <<2, 1, 1>>}

WordLists == {ws \in SUBSET Vocabulary : Cardinality(ws) <= MaxWords}

ACROSS == "across"
DOWN == "down"

Variable(i, j, direction, length) ==
    [i |-> i, j |-> j, direction |-> direction, length |-> length]

\* The grids: one slot; two crossing slots, at every crossing position; two
\* parallel slots; a chain of three slots; a crossing pair with a third slot
\* apart; and the full 2 x 2 square, whose four slots form a cycle.
Structures ==
    {{Variable(0, 0, ACROSS, n)} : n \in {2, 3}}
        \cup {{Variable(r, 0, ACROSS, 2), Variable(0, c, DOWN, 2)} :
                  r \in 0..1, c \in 0..1}
        \cup {{Variable(r, 0, ACROSS, 2), Variable(0, c, DOWN, 3)} :
                  r \in 0..2, c \in 0..1}
        \cup {{Variable(0, 0, ACROSS, 2), Variable(2, 0, ACROSS, n)} :
                  n \in {2, 3}}
        \cup {{Variable(0, 0, ACROSS, 2), Variable(0, 1, DOWN, 3),
               Variable(2, 0, ACROSS, 2)}}
        \cup {{Variable(0, 0, ACROSS, 2), Variable(0, 1, DOWN, 2),
               Variable(3, 0, ACROSS, 2)}}
        \cup {{Variable(0, 0, ACROSS, 2), Variable(1, 0, ACROSS, 2),
               Variable(0, 0, DOWN, 2), Variable(0, 1, DOWN, 2)}}

\* The orders in which a set can be iterated (Python's set and dict order is
\* fixed during one run, and differs between runs).
Orders(S) ==
    {s \in [1..Cardinality(S) -> S] :
        \A a, b \in 1..Cardinality(S) : a # b => s[a] # s[b]}

Range(s) == {s[k] : k \in 1..Len(s)}

\* Python's None, for a variable, an overlap and a word.
NoVariable == Variable(0 - 1, 0 - 1, "None", 0)
NoOverlap == <<>>
NoWord == <<>>

VARIABLES
    variables,   \* the keys of self.domains, in their iteration order
    words,       \* self.crossword.words
    domains,     \* self.domains
    assignment,  \* backtrack's assignment (a function on the bound variables)
    pc,          \* the position in solve() / backtrack() / ac3()
    caller,      \* who called the running ac3: "solve", "backtrack", "api"
    arcs,        \* ac3's (and backtrack's) local arcs
    queue,       \* ac3's local queue
    variable,    \* backtrack's local variable
    word,        \* backtrack's local word
    ret,         \* what the last call returned (a boolean)
    call,        \* the API call in progress or last made
    pre,         \* self.domains when that call was entered
    calls,       \* how many methods the caller has called
    result       \* how solve() ended: "None", "assignment" (it returned
                 \* assignment), "KeyError" or "IndexError" (it raised)

vars ==
    <<variables, words, domains, assignment, pc, caller, arcs, queue,
      variable, word, ret, call, pre, calls, result>>

\* ------------------------------------------------------------ the puzzle

\* self.crossword.overlaps[x, y], for x # y: the 0-based positions (i, j)
\* in x's word and in y's word of the cell the two slots share, or None.
\* Two slots share a cell only when one runs across and the other down:
\* the cell in the row of the one across and the column of the one down.
Overlaps(x, y) ==
    IF x.direction = y.direction THEN NoOverlap
    ELSE LET across == IF x.direction = ACROSS THEN x ELSE y
             down == IF x.direction = ACROSS THEN y ELSE x
             ka == down.j - across.j
             kd == across.i - down.i
         IN IF ka >= 0 /\ ka < across.length /\ kd >= 0 /\ kd < down.length
            THEN (IF x.direction = ACROSS THEN <<ka, kd>> ELSE <<kd, ka>>)
            ELSE NoOverlap

\* (x, y) in self.crossword.overlaps
InOverlaps(x, y) == x # y /\ x \in Range(variables) /\ y \in Range(variables)

\* self.crossword.neighbors(var): the variables that overlap var.
Neighbors(var) ==
    {v \in Range(variables) : v # var /\ Overlaps(v, var) # NoOverlap}

\* ------------------------------------------------------ consistency engine

\* __init__: every variable starts with the whole word list.
InitialDomains(vs, ws) == [v \in Range(vs) |-> ws]

\* enforce_node_consistency that removes only the words that are too short.
enforce_node_consistency_short(doms) ==
    [v \in DOMAIN doms |-> {w \in doms[v] : ~(Len(w) < v.length)}]

\* enforce_node_consistency that rebuilds every domain from the word list.
enforce_node_consistency_rebuild(doms) ==
    [v \in DOMAIN doms |-> {w \in words : Len(w) = v.length}]

\* enforce_node_consistency: remove every word whose length is not the
\* variable's.
enforce_node_consistency(doms) ==
    [v \in DOMAIN doms |-> {w \in doms[v] : v.length = Len(w)}]

\* revise that compares position overlap[1] of xWord with position
\* overlap[0] of yWord.
revise_swapped(doms, x, y) ==
    IF ~InOverlaps(x, y) \/ Overlaps(x, y) = NoOverlap
    THEN [domains |-> doms, hasMods |-> FALSE]
    ELSE LET overlap == Overlaps(x, y)
             removed ==
                 {xWord \in doms[x] :
                     ~\E yWord \in doms[y] :
                         xWord[overlap[2] + 1] = yWord[overlap[1] + 1]}
         IN [domains |-> [doms EXCEPT ![x] = doms[x] \ removed],
             hasMods |-> removed # {}]

\* revise(x, y): the new self.domains and the returned hasMods.
revise(doms, x, y) ==
    IF ~InOverlaps(x, y) \/ Overlaps(x, y) = NoOverlap
    THEN [domains |-> doms, hasMods |-> FALSE]
    ELSE LET overlap == Overlaps(x, y)
             removed ==
                 {xWord \in doms[x] :
                     ~\E yWord \in doms[y] :
                         xWord[overlap[1] + 1] = yWord[overlap[2] + 1]}
         IN [domains |-> [doms EXCEPT ![x] = doms[x] \ removed],
             hasMods |-> removed # {}]

\* The pairs (x, y) of the nested loops over self.domains, x outermost.
AllPairs ==
    LET n == Len(variables)
    IN [k \in 1..(n * n) |->
           <<variables[((k - 1) \div n) + 1], variables[((k - 1) % n) + 1]>>]

hasOverlap(key) == InOverlaps(key[1], key[2]) /\ Overlaps(key[1], key[2]) # NoOverlap

\* initArcs: every ordered pair of distinct overlapping variables.
initArcs ==
    SelectSeq(AllPairs, LAMBDA key : ~(key[1] = key[2] \/ ~hasOverlap(key)))

\* makeArcs that does not skip the variables in the assignment.
makeArcs_all(asg) ==
    SelectSeq(AllPairs, LAMBDA key : ~(key[1] = key[2] \/ ~hasOverlap(key)))

\* makeArcs(assignment): the same, without the variables in the assignment.
makeArcs(asg) ==
    SelectSeq(AllPairs,
              LAMBDA key : /\ key[1] \notin DOMAIN asg
                           /\ key[2] \notin DOMAIN asg
                           /\ ~(key[1] = key[2] \/ ~hasOverlap(key)))

\* addRelatedArcsToQueue that appends nothing.
addRelatedArcsToQueue_none(modifiedDomain, q, as) == q

\* addRelatedArcsToQueue: the queue with every arc of arcs that ends in
\* modifiedDomain appended.
addRelatedArcsToQueue(modifiedDomain, q, as) ==
    q \o SelectSeq(as, LAMBDA arc : ~(arc[2] # modifiedDomain))

\* ---------------------------------------------------------- search engine

\* assignment_complete (a bound word is always a str).
assignment_complete(asg) ==
    \A v \in DOMAIN domains : v \in DOMAIN asg /\ ~(Len(asg[v]) <= 0)

\* consistent without the test "value in valuesAssigned".
consistent_repeats(asg) ==
    \A v \in DOMAIN asg :
        /\ Len(asg[v]) = v.length
        /\ \A neighbor \in Neighbors(v) :
               neighbor \in DOMAIN asg =>
                   asg[v][Overlaps(v, neighbor)[1] + 1]
                       = asg[neighbor][Overlaps(v, neighbor)[2] + 1]

\* consistent: the loop returns False at the first variable that repeats an
\* earlier value, has the wrong length, or disagrees with a bound neighbour,
\* and True when there is none.
consistent(asg) ==
    \A v \in DOMAIN asg :
        /\ ~\E u \in DOMAIN asg : u # v /\ asg[u] = asg[v]
        /\ Len(asg[v]) = v.length
        /\ \A neighbor \in Neighbors(v) :
               neighbor \in DOMAIN asg =>
                   asg[v][Overlaps(v, neighbor)[1] + 1]
                       = asg[neighbor][Overlaps(v, neighbor)[2] + 1]

\* Python's order of str: lexicographic, a proper prefix first.
RECURSIVE StrLess(_, _)
StrLess(a, b) ==
    IF b = <<>> THEN FALSE
    ELSE IF a = <<>> THEN TRUE
    ELSE IF Head(a) # Head(b) THEN Head(a) < Head(b)
    ELSE StrLess(Tail(a), Tail(b))

\* Python's order of the tuples (ruledOutNum, value).
PairLess(p, q) == p[1] < q[1] \/ (p[1] = q[1] /\ StrLess(p[2], q[2]))

\* list.sort() of a set of distinct tuples.
RECURSIVE Sorted(_)
Sorted(S) ==
    IF S = {} THEN <<>>
    ELSE LET least == CHOOSE p \in S : \A q \in S \ {p} : PairLess(p, q)
         IN <<least>> \o Sorted(S \ {least})

\* ruledOutNum that counts the neighbours in the assignment as well.
ruledOutNum_assigned(var, asg, value) ==
    LET counted ==
            {<<neighbor, w>> \in Neighbors(var) \X words :
                /\ Overlaps(var, neighbor) # NoOverlap
                /\ w \in domains[neighbor]
                /\ value[Overlaps(var, neighbor)[1] + 1]
                       # w[Overlaps(var, neighbor)[2] + 1]}
    IN Cardinality(counted)

\* The number order_domain_values counts for value: over the neighbours
\* not in the assignment, the words that disagree at the overlap.
ruledOutNum(var, asg, value) ==
    LET counted ==
            {<<neighbor, w>> \in Neighbors(var) \X words :
                /\ neighbor \notin DOMAIN asg
                /\ Overlaps(var, neighbor) # NoOverlap
                /\ w \in domains[neighbor]
                /\ value[Overlaps(var, neighbor)[1] + 1]
                       # w[Overlaps(var, neighbor)[2] + 1]}
    IN Cardinality(counted)

order_domain_values(var, asg) ==
    LET ruledOutNums ==
            Sorted({<<ruledOutNum(var, asg, value), value>> :
                        value \in domains[var]})
    IN [k \in 1..Len(ruledOutNums) |-> ruledOutNums[k][2]]

\* select_unassigned_variable: the loop over self.domains from its k-th
\* key on, with varToReturn so far.
RECURSIVE SelectFrom(_, _, _)
SelectFrom(k, asg, varToReturn) ==
    IF k > Len(variables) THEN varToReturn
    ELSE LET v == variables[k]
         IN IF v \in DOMAIN asg THEN SelectFrom(k + 1, asg, varToReturn)
            ELSE IF varToReturn = NoVariable THEN SelectFrom(k + 1, asg, v)
            ELSE IF \/ Cardinality(domains[v]) < Cardinality(domains[varToReturn])
                    \/ Cardinality(domains[v]) = Cardinality(domains[varToReturn])
                 THEN SelectFrom(k + 1, asg, v)
                 ELSE SelectFrom(k + 1, asg, varToReturn)

\* select_unassigned_variable that returns the first variable not in the
\* assignment.
select_unassigned_first(asg) ==
    LET unassigned == SelectSeq(variables, LAMBDA v : v \notin DOMAIN asg)
    IN IF Len(unassigned) = 0 THEN NoVariable ELSE unassigned[1]

select_unassigned_variable(asg) == SelectFrom(1, asg, NoVariable)

Bind(asg, v, w) == [u \in DOMAIN asg \cup {v} |-> IF u = v THEN w ELSE asg[u]]

\* del that forgets every binding made so far.
Del_all(asg, v) == [u \in {} |-> asg[u]]

Del(asg, v) == [u \in DOMAIN asg \ {v} |-> asg[u]]

EmptyAssignment == [u \in {} |-> NoWord]

\* ------------------------------------------------------------ the states

\* The record of a call of op(x, y); afterAc3True says that it was made
\* right after an ac3() over the full arc set had returned True.
Call(op, x, y) ==
    [op |-> op, x |-> x, y |-> y,
     afterAc3True |-> call.op = "ac3" /\ caller \in {"solve", "api"} /\ ret]

NoCall ==
    [op |-> "none", x |-> NoVariable, y |-> NoVariable, afterAc3True |-> FALSE]

\* A CrosswordCreator just constructed for some puzzle of at most n
\* variables, at position p.
Constructed(p, n) ==
    /\ \E S \in Structures : Cardinality(S) <= n /\ variables \in Orders(S)
    /\ words \in WordLists
    /\ domains = InitialDomains(variables, words)
    /\ assignment = EmptyAssignment
    /\ pc = p
    /\ caller = "none"
    /\ arcs = <<>>
    /\ queue = <<>>
    /\ variable = NoVariable
    /\ word = NoWord
    /\ ret = FALSE
    /\ call = NoCall
    /\ pre = domains
    /\ calls = 0
    /\ result = "running"

\* main(): the creator is constructed and solve() is about to be called.
Init == Constructed("solve", 4)

\* ------------------------------------------------------------------ ac3()

\* ac3 is entered with the arcs as, on behalf of who.
EnterAc3(as, who) ==
    /\ arcs' = as
    /\ queue' = as
    /\ caller' = who
    /\ call' = Call("ac3", NoVariable, NoVariable)
    /\ pre' = domains
    /\ pc' = "ac3"

\* Where ac3 returns to.
AfterAc3 ==
    CASE caller = "solve" -> "solve_backtrack"
      [] caller = "backtrack" -> "afterAc3"
      [] OTHER -> "idle"

\* One iteration of ac3's loop that revises the arc it pops.
Ac3Revise ==
    /\ pc = "ac3"
    /\ Len(queue) > 0
    /\ LET arc == Head(queue)
           revised == revise(domains, arc[1], arc[2])
       IN /\ ~(Cardinality(domains[arc[1]]) = 0)
          /\ domains' = revised.domains
          /\ queue' = IF revised.hasMods
                      THEN addRelatedArcsToQueue(arc[1], Tail(queue), arcs)
                      ELSE Tail(queue)
    /\ UNCHANGED <<variables, words, assignment, pc, caller, arcs, variable,
                   word, ret, call, pre, result, calls>>

\* The iteration that pops an arc whose first variable has no word left.
Ac3ReturnFalse ==
    /\ pc = "ac3"
    /\ Len(queue) > 0
    /\ Cardinality(domains[Head(queue)[1]]) = 0
    /\ queue' = Tail(queue)
    /\ ret' = FALSE
    /\ pc' = AfterAc3
    /\ UNCHANGED <<variables, words, domains, assignment, caller, arcs,
                   variable, word, call, pre, result, calls>>

\* The queue is empty.
Ac3ReturnTrue ==
    /\ pc = "ac3"
    /\ ~(Len(queue) > 0)
    /\ ret' = TRUE
    /\ pc' = AfterAc3
    /\ UNCHANGED <<variables, words, domains, assignment, caller, arcs,
                   queue, variable, word, call, pre, result, calls>>

\* ---------------------------------------------------------------- solve()

\* solve: self.enforce_node_consistency()
SolveEnforce ==
    /\ pc = "solve"
    /\ domains' = enforce_node_consistency(domains)
    /\ call' = Call("enforce_node_consistency", NoVariable, NoVariable)
    /\ pre' = domains
    /\ pc' = "solve_ac3"
    /\ UNCHANGED <<variables, words, assignment, caller, arcs, queue,
                   variable, word, ret, result, calls>>

\* solve: self.ac3()
SolveAc3 ==
    /\ pc = "solve_ac3"
    /\ EnterAc3(initArcs, "solve")
    /\ UNCHANGED <<variables, words, domains, assignment, variable, word,
                   ret, result, calls>>

\* solve: return self.backtrack(dict()), whatever ac3 returned.
SolveBacktrack ==
    /\ pc = "solve_backtrack"
    /\ assignment' = EmptyAssignment
    /\ pc' = "select"
    /\ UNCHANGED <<variables, words, domains, caller, arcs, queue, variable,
                   word, ret, call, pre, calls, result>>

\* ------------------------------------------------------------ backtrack()

\* backtrack without the test len(words) == 0.
no_possible_value_never(ws) == FALSE

\* backtrack: "Variable has no assigned value and there is no possible
\* value to assign to it".
no_possible_value(ws) == Cardinality(ws) = 0

\* The loop ends, or the variable selected has no word: return None.
BacktrackReturnNone ==
    /\ pc = "select"
    /\ LET v == select_unassigned_variable(assignment)
       IN /\ v = NoVariable \/ no_possible_value(domains[v])
          /\ variable' = v
    /\ result' = "None"
    /\ pc' = "done"
    /\ UNCHANGED <<variables, words, domains, assignment, caller, arcs,
                   queue, word, ret, call, pre, calls>>

\* The variable selected is bound to its first ranked word; taking the
\* first of an empty list raises IndexError.
BacktrackTry ==
    /\ pc = "select"
    /\ LET v == select_unassigned_variable(assignment)
       IN /\ v # NoVariable
          /\ ~no_possible_value(domains[v])
          /\ variable' = v
          /\ LET sortedValues == order_domain_values(v, assignment)
             IN IF Len(sortedValues) = 0
                THEN /\ result' = "IndexError"
                     /\ pc' = "done"
                     /\ UNCHANGED <<word, assignment, arcs>>
                ELSE /\ word' = sortedValues[1]
                     /\ assignment' = Bind(assignment, v, sortedValues[1])
                     /\ arcs' = makeArcs(Bind(assignment, v, sortedValues[1]))
                     /\ pc' = "check"
                     /\ UNCHANGED result
    /\ UNCHANGED <<variables, words, domains, caller, queue, ret, call,
                   pre, calls>>

\* An inconsistent trial is undone; then ac3(arcs) is called when there
\* are arcs.
BacktrackCheck ==
    /\ pc = "check"
    /\ LET rejected == ~consistent(assignment)
           doms == IF rejected
                   THEN enforce_node_consistency(
                            [domains EXCEPT ![variable] = @ \ {word}])
                   ELSE domains
       IN /\ domains' = doms
          /\ assignment' = IF rejected THEN Del(assignment, variable)
                           ELSE assignment
          /\ IF Len(arcs) > 0
             THEN /\ queue' = arcs
                  /\ caller' = "backtrack"
                  /\ call' = Call("ac3", NoVariable, NoVariable)
                  /\ pre' = doms
                  /\ pc' = "ac3"
             ELSE /\ pc' = "complete"
                  /\ UNCHANGED <<queue, caller, call, pre>>
    /\ UNCHANGED <<variables, words, arcs, variable, word, ret, result, calls>>

\* ac3(arcs) has returned: on False the binding is deleted, and deleting a
\* binding that is not there raises KeyError.
BacktrackAfterAc3 ==
    /\ pc = "afterAc3"
    /\ IF ret = FALSE
       THEN IF variable \in DOMAIN assignment
            THEN /\ assignment' = Del(assignment, variable)
                 /\ pc' = "complete"
                 /\ UNCHANGED result
            ELSE /\ result' = "KeyError"
                 /\ pc' = "done"
                 /\ UNCHANGED assignment
       ELSE /\ pc' = "complete"
            /\ UNCHANGED <<assignment, result>>
    /\ UNCHANGED <<variables, words, domains, caller, arcs, queue, variable,
                   word, ret, call, pre, calls>>

\* A complete assignment is returned; otherwise the loop goes on.
BacktrackComplete ==
    /\ pc = "complete"
    /\ IF assignment_complete(assignment)
       THEN result' = "assignment" /\ pc' = "done"
       ELSE pc' = "select" /\ UNCHANGED result
    /\ UNCHANGED <<variables, words, domains, assignment, caller, arcs,
                   queue, variable, word, ret, call, pre, calls>>

Next ==
    \/ SolveEnforce
    \/ SolveAc3
    \/ SolveBacktrack
    \/ Ac3Revise
    \/ Ac3ReturnFalse
    \/ Ac3ReturnTrue
    \/ BacktrackReturnNone
    \/ BacktrackTry
    \/ BacktrackCheck
    \/ BacktrackAfterAc3
    \/ BacktrackComplete

Spec == Init /\ [][Next]_vars

\* ------------------------------------------- the methods called one by one

\* A creator just constructed, whose methods a caller is about to use.
InitApi == Constructed("idle", 3)

\* enforce_node_consistency() is called.
ApiEnforce ==
    /\ pc = "idle"
    /\ calls < MaxCalls
    /\ calls' = calls + 1
    /\ domains' = enforce_node_consistency(domains)
    /\ call' = Call("enforce_node_consistency", NoVariable, NoVariable)
    /\ pre' = domains
    /\ UNCHANGED <<variables, words, assignment, pc, caller, arcs, queue,
                   variable, word, ret, result>>

\* revise(x, y) is called on a node-consistent domain store.
ApiRevise ==
    /\ pc = "idle"
    /\ calls < MaxCalls
    /\ calls' = calls + 1
    /\ call.op # "none"
    /\ \E x \in Range(variables), y \in Range(variables) :
           /\ domains' = revise(domains, x, y).domains
           /\ ret' = revise(domains, x, y).hasMods
           /\ call' = Call("revise", x, y)
    /\ pre' = domains
    /\ UNCHANGED <<variables, words, assignment, pc, caller, arcs, queue,
                   variable, word, result>>

\* ac3() is called on a node-consistent domain store.
ApiAc3 ==
    /\ pc = "idle"
    /\ calls < MaxCalls
    /\ calls' = calls + 1
    /\ call.op # "none"
    /\ EnterAc3(initArcs, "api")
    /\ UNCHANGED <<variables, words, domains, assignment, variable, word,
                   ret, result>>

\* ac3(arcs) is called on a node-consistent domain store, with the arcs
\* makeArcs gives for the variables bound.
ApiAc3Arcs ==
    /\ pc = "idle"
    /\ calls < MaxCalls
    /\ calls' = calls + 1
    /\ call.op # "none"
    /\ \E as \in {makeArcs([u \in bound |-> NoWord]) :
                       bound \in SUBSET Range(variables)} :
           EnterAc3(as, "arcs")
    /\ UNCHANGED <<variables, words, domains, assignment, variable, word,
                   ret, result>>

NextApi ==
    \/ ApiEnforce
    \/ ApiRevise
    \/ ApiAc3
    \/ ApiAc3Arcs
    \/ Ac3Revise
    \/ Ac3ReturnFalse
    \/ Ac3ReturnTrue

SpecApi == InitApi /\ [][NextApi]_vars

\* ------------------------------------------------------------ the claims

\* asg binds every variable to a word of its length, no word twice, and
\* the words of crossing variables agree on the letter they share.
Solves(asg) ==
    /\ DOMAIN asg = Range(variables)
    /\ \A v \in Range(variables) : Len(asg[v]) = v.length
    /\ \A u, v \in Range(variables) : u # v => asg[u] # asg[v]
    /\ \A x, y \in Range(variables) :
           (x # y /\ Overlaps(x, y) # NoOverlap) =>
               asg[x][Overlaps(x, y)[1] + 1] = asg[y][Overlaps(x, y)[2] + 1]

\* The puzzle has a solution over its word list.
Solvable ==
    \E f \in [Range(variables) -> words] : Solves(f)

\* C1: an assignment that solve() returns binds every variable, each to a
\* word of the variable's length, binds no word to two variables, and
\* satisfies the overlap of every pair of crossing variables.
C1_SearchSoundness == result = "assignment" => Solves(assignment)

\* C1 witness: solve() returned an assignment for a puzzle with crossing
\* variables.
C1_Witness ==
    /\ result = "assignment"
    /\ \E x, y \in Range(variables) : x # y /\ Overlaps(x, y) # NoOverlap

\* C2: solve() returns None only for a puzzle that has no solution.
C2_SearchCompleteness == result = "None" => ~Solvable

\* C3: solve() returns a complete assignment or None and raises nothing:
\* the binding of the variable tried is not deleted twice in one iteration
\* (after an inconsistent trial, ac3(arcs) does not return False), and the
\* first ranked value is taken from a list that is not empty.
C3_TwoOutcomes ==
    /\ result \in {"running", "None", "assignment"}
    /\ pc = "done" => result \in {"None", "assignment"}
    /\ result = "assignment" => DOMAIN assignment = Range(variables)
    /\ (pc = "afterAc3" /\ variable \notin DOMAIN assignment) => ret = TRUE
    /\ pc = "check" => word \in domains[variable]

\* C3 witness: a trial was rejected as inconsistent and undone, and the
\* ac3(arcs) of the same iteration has returned.
C3_Witness == pc = "afterAc3" /\ variable \notin DOMAIN assignment

\* Every word of every variable has a supporting word in the domain of
\* every variable that overlaps it.
ArcConsistent(doms) ==
    \A x, y \in Range(variables) :
        (x # y /\ Overlaps(x, y) # NoOverlap) =>
            \A w \in doms[x] :
                \E v \in doms[y] :
                    w[Overlaps(x, y)[1] + 1] = v[Overlaps(x, y)[2] + 1]

\* The store after enforce_node_consistency() on a fresh creator.
NodeConsistentStore ==
    [v \in Range(variables) |-> {w \in words : Len(w) = v.length}]

\* C4: when the ac3() that solve() runs over the full arc set, after
\* enforce_node_consistency(), returns True, every word left in domain(x)
\* has a supporting word in domain(y), for every overlapping (x, y).
C4_ArcConsistencySoundness ==
    (pc = "solve_backtrack" /\ ret = TRUE) => ArcConsistent(domains)

\* C4 witness: ac3() returned True after it removed words, and the
\* variables that overlap kept words.
C4_Witness ==
    /\ pc = "solve_backtrack"
    /\ ret = TRUE
    /\ domains # pre
    /\ \E x, y \in Range(variables) :
           x # y /\ Overlaps(x, y) # NoOverlap /\ domains[x] # {}

\* C5: when an ac3 (over the full arc set or over the arcs it is given)
\* returns, it has returned True exactly when no domain is empty.
C5_Ac3ReturnValue ==
    (pc \in {"solve_backtrack", "afterAc3"}) =>
        (ret = TRUE <=> \A v \in Range(variables) : domains[v] # {})

\* Some domain became empty during the ac3 in progress or last run.
BecameEmpty == \E v \in Range(variables) : domains[v] = {} /\ pre[v] # {}

\* C6 (as claimed): when the initial ac3() emptied a domain it returns
\* False, and solve() then returns None without running backtrack.
C6_NoSearchAfterFailure ==
    [][(pc = "solve_backtrack" /\ BecameEmpty) =>
          (ret = FALSE /\ pc' = "done" /\ result' = "None")]_vars

\* C6 (amended): when the initial ac3() emptied a domain it returns False;
\* after it returned False, backtrack is run, binds no variable to any
\* word and returns None from its first iteration.
C6_FailureMeansNone ==
    /\ (pc = "solve_backtrack" /\ BecameEmpty) => ret = FALSE
    /\ (ret = FALSE /\ pc \in {"select", "check", "afterAc3", "complete", "done"}) =>
           /\ pc \in {"select", "done"}
           /\ assignment = EmptyAssignment
           /\ word = NoWord
           /\ pc = "done" => result = "None"

\* C6 witness: solve() returned None after the initial ac3() emptied a
\* domain that node consistency had left with words.
C6_Witness ==
    /\ pc = "done"
    /\ ret = FALSE
    /\ result = "None"
    /\ \E v \in Range(variables) :
           domains[v] = {} /\ NodeConsistentStore[v] # {}

\* C7: enforce_node_consistency() leaves in each domain exactly the words
\* it held whose length is the variable's, and no later state of solve()
\* has a domain with a word of another length.
C7_NodeConsistency ==
    /\ pc = "solve_ac3" =>
           \A v \in Range(variables) :
               /\ \A w \in pre[v] : Len(w) = v.length => w \in domains[v]
               /\ \A w \in domains[v] : w \in pre[v] /\ Len(w) = v.length
    /\ pc # "solve" =>
           \A v \in Range(variables) :
               \A w \in domains[v] : Len(w) = v.length

\* C7 witness: enforce_node_consistency() removed words of a variable and
\* kept others.
C7_Witness ==
    /\ pc = "solve_ac3"
    /\ \E v \in Range(variables) : domains[v] # pre[v] /\ domains[v] # {}

\* C8: solve() returns None when the word list has no word of some
\* variable's length, and whenever the variable the search selected has an
\* empty domain.
C8_EmptyDomainUnsolvable ==
    pc = "done" =>
        /\ (\E v \in Range(variables) : \A w \in words : Len(w) # v.length)
               => result = "None"
        /\ (variable # NoVariable /\ domains[variable] = {})
               => result = "None"

\* C8 witness: solve() returned None for a puzzle with a variable that
\* crosses no other and has no word of its length, while another variable
\* has words.
C8_Witness ==
    /\ pc = "done"
    /\ result = "None"
    /\ \E v, u \in Range(variables) :
           /\ Neighbors(v) = {}
           /\ \A w \in words : Len(w) # v.length
           /\ domains[u] # {}

\* C9: revise(x, y) on overlapping x and y leaves in domain(x) exactly the
\* words that have a supporting word in domain(y), and returns True iff
\* domain(x) changed; on x and y that do not overlap it changes nothing and
\* returns False; it leaves every other domain as it was.
C9_Revise ==
    (pc = "idle" /\ call.op = "revise") =>
        LET x == call.x
            y == call.y
        IN /\ \A z \in Range(variables) : z # x => domains[z] = pre[z]
           /\ IF x # y /\ Overlaps(x, y) # NoOverlap
              THEN /\ \A w \in pre[x] :
                          w \in domains[x] <=>
                              \E v \in pre[y] :
                                  w[Overlaps(x, y)[1] + 1]
                                      = v[Overlaps(x, y)[2] + 1]
                   /\ domains[x] \subseteq pre[x]
                   /\ ret = (domains[x] # pre[x])
              ELSE domains[x] = pre[x] /\ ret = FALSE

\* C9 witness: revise(x, y) removed words of x and kept others.
C9_Witness ==
    /\ pc = "idle"
    /\ call.op = "revise"
    /\ ret = TRUE
    /\ domains[call.x] # {}
    /\ domains[call.x] # pre[call.x]

\* C10: enforce_node_consistency() on a node-consistent store changes no
\* domain; ac3() over the full arc set, called right after an ac3() over
\* the full arc set returned True, changes no domain and returns True.
C10_Idempotence ==
    /\ (pc = "idle" /\ call.op = "enforce_node_consistency" /\ calls >= 2)
           => domains = pre
    /\ (pc = "idle" /\ call.op = "ac3" /\ caller = "api" /\ call.afterAc3True)
           => (domains = pre /\ ret = TRUE)

\* C10 witness: the second ac3() returned, on a store from which the first
\* had removed words.
C10_Witness ==
    /\ pc = "idle"
    /\ call.op = "ac3"
    /\ caller = "api"
    /\ call.afterAc3True
    /\ domains # NodeConsistentStore
    /\ \A v \in Range(variables) : domains[v] # {}

\* ----------------------------------------------------- C11 .. C13: ordering

\* The variables that are not in the assignment.
Unassigned == Range(variables) \ DOMAIN assignment

\* The number of neighbours of v.
Degree(v) == Cardinality(Neighbors(v))

\* C11: for every partial assignment, select_unassigned_variable returns a
\* variable that is not in the assignment and whose domain is the smallest
\* among the variables not in the assignment, and it returns None exactly
\* when every variable is in the assignment.
C11_MinimumRemainingValues ==
    LET v == select_unassigned_variable(assignment)
    IN /\ (v = NoVariable) <=> (Unassigned = {})
       /\ Unassigned # {} =>
              /\ v \in Unassigned
              /\ \A u \in Unassigned :
                     Cardinality(domains[v]) <= Cardinality(domains[u])

\* C11 witness: the search selects among several variables that are not in
\* the assignment, the first of them has a larger domain than the one the
\* function returns, and another variable is bound already.
C11_Witness ==
    /\ pc = "select"
    /\ DOMAIN assignment # {}
    /\ LET v == select_unassigned_variable(assignment)
       IN /\ v # NoVariable
          /\ \E k \in 1..Len(variables) :
                 /\ variables[k] \in Unassigned
                 /\ \A j \in 1..(k - 1) : variables[j] \in DOMAIN assignment
                 /\ Cardinality(domains[variables[k]])
                        > Cardinality(domains[v])

\* C12: when several variables that are not in the assignment have the
\* smallest domain size, select_unassigned_variable returns one of them
\* that has the most neighbours.
C12_DegreeTieBreak ==
    LET v == select_unassigned_variable(assignment)
    IN pc = "select" =>
           \A u \in Unassigned :
               Cardinality(domains[u]) = Cardinality(domains[v])
                   => Degree(u) <= Degree(v)

\* The conflict count of the word w of var: the pairs of a neighbour n of
\* var that is not in the assignment and a word v of n that disagrees with
\* w on the shared cell.
ConflictCount(var, w) ==
    Cardinality(
        {p \in (Neighbors(var) \ DOMAIN assignment) \X words :
            /\ p[2] \in domains[p[1]]
            /\ w[Overlaps(var, p[1])[1] + 1]
                   # p[2][Overlaps(var, p[1])[2] + 1]})

\* order_domain_values(var, assignment) is domain(var), each word once, in
\* non-decreasing order of conflict count.
LeastConstrainingOrder(var) ==
    LET sortedValues == order_domain_values(var, assignment)
    IN /\ Len(sortedValues) = Cardinality(domains[var])
       /\ Range(sortedValues) = domains[var]
       /\ \A k \in 1..(Len(sortedValues) - 1) :
              ConflictCount(var, sortedValues[k])
                  <= ConflictCount(var, sortedValues[k + 1])

\* C13: on every node-consistent store and partial assignment of a run,
\* order_domain_values(var, assignment) is a permutation of domain(var)
\* in non-decreasing order of conflict count, the neighbours in the
\* assignment counting for nothing; and the iteration that calls it changes
\* no domain and changes the assignment only by the binding that follows.
C13_LeastConstrainingValue ==
    /\ [](pc # "solve" =>
             \A var \in Range(variables) : LeastConstrainingOrder(var))
    /\ [][pc = "select" =>
             /\ domains' = domains
             /\ \/ assignment' = assignment
                \/ assignment' = Bind(assignment, variable', word')]_vars

\* C13 witness: the search has just bound the first word of a ranking in
\* which the words differ in conflict count, and the variable has a
\* neighbour in the assignment and one that is not.
C13_Witness ==
    /\ pc = "check"
    /\ Neighbors(variable) \cap DOMAIN assignment # {}
    /\ Neighbors(variable) \ DOMAIN assignment # {}
    /\ \E w \in domains[variable] :
           ConflictCount(variable, word) < ConflictCount(variable, w)

\* ------------------------------------------------- C14 .. C20: the search

\* backtrack's loop is running (the ac3 it calls included).
InSearch ==
    \/ pc \in {"select", "check", "afterAc3", "complete"}
    \/ pc = "ac3" /\ caller = "backtrack"

\* The trial of the last iteration was undone: its variable is not bound.
LastTrialRejected == variable # NoVariable /\ variable \notin DOMAIN assignment

\* C14: when the word w the search has just bound to v makes the assignment
\* inconsistent, the iteration unbinds v and removes w from domain(v); the
\* next iteration selects v again and, if it tries a word, tries another
\* one than w; it returns None only when domain(v) is empty, and a word
\* leaves a domain during the search only as the rejected word of a trial.
C14_RejectAndRetry ==
    /\ [][(pc = "check" /\ ~consistent(assignment)) =>
             /\ variable \notin DOMAIN assignment'
             /\ word \notin domains'[variable]]_vars
    /\ [](pc = "select" /\ LastTrialRejected =>
             /\ select_unassigned_variable(assignment) = variable
             /\ word \notin domains[variable])
    /\ [][(pc = "select" /\ LastTrialRejected) =>
             /\ variable' = variable
             /\ pc' = "check" => word' # word
             /\ result' = "None" => domains[variable] = {}]_vars
    /\ [][(InSearch /\ domains' # domains) =>
             /\ pc = "check"
             /\ ~consistent(assignment)
             /\ domains' = [domains EXCEPT ![variable] = @ \ {word}]]_vars

\* C14 witness: after a rejected trial of a variable that is not the first
\* in iteration order, the next iteration is about to try the same variable
\* with the words that are left, while another variable is still unbound.
C14_Witness ==
    /\ pc = "select"
    /\ LastTrialRejected
    /\ domains[variable] # {}
    /\ \E k \in 1..Len(variables) :
           /\ variables[k] \in Unassigned
           /\ variables[k] # variable
           /\ \A j \in 1..(k - 1) : variables[j] # variable

\* The assignment asg breaks no rule: every bound word has the length of
\* its variable, no two variables have the same word, and two bound
\* variables that cross have the same letter on the shared cell.
PartialConsistent(asg) ==
    /\ \A v \in DOMAIN asg : Len(asg[v]) = v.length
    /\ \A u, v \in DOMAIN asg : u # v => asg[u] # asg[v]
    /\ \A u, v \in DOMAIN asg :
           (u # v /\ Overlaps(u, v) # NoOverlap) =>
               asg[u][Overlaps(u, v)[1] + 1] = asg[v][Overlaps(u, v)[2] + 1]

\* C15: whenever the loop selects the next variable, and when solve()
\* has returned, the partial assignment is consistent; an inconsistent
\* assignment exists only between the tentative bind and its undo.
C15_PartialAssignmentInvariant == pc # "check" => PartialConsistent(assignment)

\* C15 witness: the loop selects the next variable with two crossing
\* variables bound, after an iteration that bound a word and undid it.
C15_Witness ==
    /\ pc = "select"
    /\ LastTrialRejected
    /\ \E u, v \in DOMAIN assignment : u # v /\ Overlaps(u, v) # NoOverlap

\* C16: every step of solve() leaves each variable's domain a subset of
\* what it was before the step, and every domain is always a subset of the
\* word list.
C16_DomainsOnlyShrink ==
    /\ [](\A v \in Range(variables) : domains[v] \subseteq words)
    /\ [][\A v \in Range(variables) : domains'[v] \subseteq domains[v]]_vars

\* C16 witness: solve() has returned after node consistency removed words
\* of a variable, ac3 removed more of them, and the search removed a
\* rejected word.
C16_Witness ==
    /\ pc = "done"
    /\ \E v \in Range(variables) :
           /\ NodeConsistentStore[v] # words
           /\ \E w \in NodeConsistentStore[v] \ domains[v] :
                  \E u \in Neighbors(v) :
                      \A x \in NodeConsistentStore[u] :
                          w[Overlaps(v, u)[1] + 1] # x[Overlaps(v, u)[2] + 1]
    /\ LastTrialRejected
    /\ word \notin domains[variable]

\* The arcs that one iteration of ac3's loop put behind the arcs that were
\* waiting.
Appended == SubSeq(queue', Len(queue), Len(queue'))

\* One iteration of ac3's loop pops the front arc and keeps the waiting
\* arcs in their order in front of what it appends.
PopsFront ==
    /\ Len(queue') >= Len(queue) - 1
    /\ SubSeq(queue', 1, Len(queue) - 1) = Tail(queue)

\* C17 as stated: an iteration of ac3's loop pops the front arc (x, y) and
\* keeps the waiting arcs in order; when domain(x) was reduced it appends
\* the arc (z, x) of every variable z that overlaps x, each once, and
\* otherwise it appends nothing.
C17_QueueDiscipline ==
    [][(pc = "ac3" /\ Len(queue) > 0) =>
          LET x == Head(queue)[1]
          IN /\ PopsFront
             /\ IF domains'[x] # domains[x]
                THEN /\ Range(Appended) = {<<z, x>> : z \in Neighbors(x)}
                     /\ Len(Appended) = Cardinality(Neighbors(x))
                ELSE Appended = <<>>]_vars

\* C17 amended: what is appended when domain(x) was reduced is the arcs of
\* the list ac3 was called with whose second element is x, in the order of
\* that list.
C17_QueueDisciplineOfArcs ==
    [][(pc = "ac3" /\ Len(queue) > 0) =>
          LET x == Head(queue)[1]
          IN /\ PopsFront
             /\ IF domains'[x] # domains[x]
                THEN Appended = SelectSeq(arcs, LAMBDA arc : arc[2] = x)
                ELSE Appended = <<>>]_vars

\* C17 witness: ac3 over a list that leaves out arcs of the puzzle has
\* reduced a domain and has arcs behind the ones it started with.
C17_Witness ==
    /\ pc = "ac3"
    /\ caller = "arcs"
    /\ Len(arcs) < Len(initArcs)
    /\ domains # pre
    /\ \E k \in 1..Len(queue) : \E j \in (k + 1)..Len(queue) :
           queue[k] = arcs[Len(arcs)] /\ queue[j] \in Range(arcs)

\* solve() runs on one thread from call to return: a step that can be
\* taken is taken.
SpecFair == Spec /\ WF_vars(Next)

\* One iteration of ac3's loop puts no arc behind the waiting ones unless
\* it made a domain strictly smaller.
RequeueOnlyAfterShrink ==
    (pc = "ac3" /\ Len(queue') >= Len(queue)) =>
        (queue' = queue \/ \E v \in Range(variables) :
                               /\ domains'[v] \subseteq domains[v]
                               /\ domains'[v] # domains[v])

\* The steps of one iteration of backtrack's loop: the bind adds one
\* variable to the assignment; the check keeps the binding, or undoes it
\* and makes the domain of the tried variable strictly smaller; the steps
\* between the check and the next selection unbind nothing and add no word.
IterationProgress ==
    /\ (pc = "select" /\ pc' = "check") =>
           /\ variable' \notin DOMAIN assignment
           /\ DOMAIN assignment' = DOMAIN assignment \cup {variable'}
           /\ domains' = domains
    /\ pc = "check" =>
           \/ assignment' = assignment /\ domains' = domains
           \/ /\ DOMAIN assignment' = DOMAIN assignment \ {variable}
              /\ domains'[variable] \subseteq domains[variable]
              /\ domains'[variable] # domains[variable]
    /\ (InSearch /\ pc \notin {"select", "check"}) =>
           /\ assignment' = assignment
           /\ \A v \in Range(variables) : domains'[v] \subseteq domains[v]

\* No queue of ac3 is longer than this: there are fewer arcs than pairs
\* of variables, and a call starts with its arcs and puts arcs back once
\* more at most for every word that can leave a domain.
QMax ==
    Len(variables) * Len(variables)
        * (1 + Cardinality(words) * Len(variables))

\* The position of solve(), counted down towards its return.
Phase ==
    CASE pc = "solve" -> 9
      [] pc = "solve_ac3" -> 8
      [] pc = "ac3" /\ caller = "solve" -> 7
      [] pc = "solve_backtrack" -> 6
      [] pc = "check" -> 5
      [] pc = "ac3" /\ caller = "backtrack" -> 4
      [] pc = "afterAc3" -> 3
      [] pc = "complete" -> 2
      [] pc = "select" -> 1
      [] OTHER -> 0

\* The words left in the domains.
DomainWords ==
    Cardinality({p \in Range(variables) \X words : p[2] \in domains[p[1]]})

\* A natural number that measures what is left to do: first the words
\* left in the domains and the variables not bound, then the position,
\* then the arcs waiting in ac3's queue.
Rank ==
    IF pc = "done" THEN 0
    ELSE (DomainWords + Cardinality(Unassigned)) * (10 * (QMax + 1))
             + Phase * (QMax + 1)
             + (IF pc = "ac3" THEN Len(queue) ELSE 0)

\* A step of solve() can be taken. At the selection BacktrackReturnNone
\* and BacktrackTry have complementary guards.
CanStep ==
    \/ pc = "select"
    \/ ENABLED (\/ SolveEnforce \/ SolveAc3 \/ SolveBacktrack
                \/ Ac3Revise \/ Ac3ReturnFalse \/ Ac3ReturnTrue
                \/ BacktrackCheck \/ BacktrackAfterAc3 \/ BacktrackComplete)

\* C18: every ac3 call returns and solve() returns: until solve() has
\* returned a step can be taken, and every step makes the natural number
\* Rank smaller, so no run takes steps forever; ac3 puts arcs back on its
\* queue only after a domain strictly shrank, and every iteration of
\* backtrack's loop leaves one more variable bound or one domain strictly
\* smaller.
C18_Termination ==
    /\ [](pc # "done" => CanStep)
    /\ [](Len(queue) <= QMax)
    /\ [][Rank' < Rank]_vars
    /\ [][RequeueOnlyAfterShrink]_vars
    /\ [][IterationProgress]_vars

\* C18 witness: solve() has returned after an ac3 that removed words, an
\* iteration that bound a variable and a later one that removed a rejected
\* word.
C18_Witness ==
    /\ pc = "done"
    /\ DOMAIN assignment # {}
    /\ LastTrialRejected
    /\ \E v \in Range(variables) : \E w \in NodeConsistentStore[v] \ domains[v] :
           \E u \in Neighbors(v) :
               \A x \in NodeConsistentStore[u] :
                   w[Overlaps(v, u)[1] + 1] # x[Overlaps(v, u)[2] + 1]

\* The binding of v in the assignment has passed, or does not need, the
\* consistency check of its iteration.
Accepted(v) ==
    /\ v \in DOMAIN assignment
    /\ (pc = "check" /\ v = variable) => consistent(assignment)

C20_RestrictedPropagationInert ==
    /\ []((pc = "afterAc3" /\ caller = "backtrack") =>
              (ret = TRUE /\ domains = pre))
    /\ [][(pc = "ac3" /\ caller = "backtrack") => domains' = domains]_vars
    /\ [][pc = "check" =>
              domains' = IF consistent(assignment) THEN domains
                         ELSE [domains EXCEPT ![variable] = @ \ {word}]]_vars
    /\ [][(InSearch /\ pc # "check") => domains' = domains]_vars

\* C20 witness: after an initial ac3 that removed words and returned True,
\* an ac3(arcs) over several arcs has returned in an iteration that
\* rejected its trial word.
C20_Witness ==
    /\ pc = "afterAc3"
    /\ caller = "backtrack"
    /\ Len(arcs) > 0
    /\ LastTrialRejected
    /\ word \in NodeConsistentStore[variable] \ domains[variable]
    /\ \E v \in Range(variables) : \E w \in NodeConsistentStore[v] \ domains[v] :
           v # variable
    /\ \A v \in Range(variables) : v # variable => domains[v] # {}

====
